---- MODULE Spec2Model ----
(***************************************************************************)
(* Perks Keeper: offer accrual and status engine (src/lib/offers.ts), the  *)
(* archive / delete actions (src/lib/offer-actions.ts, shipped at the end  *)
(* of src/src/lib/db.ts), the quick-log spend transaction, the offer       *)
(* create / edit forms, the normalization sweeps of the pages and the     *)
(* schema upgrades of the store (src/lib/db.ts).                           *)
(*                                                                         *)
(* Numbers.  Money is an integer count of 1/10000 dollar, so one cent is   *)
(* Cent = 100 and half a cent is representable; a rate is an integer count *)
(* of 1/RateDen.  Arithmetic is exact: the value sets below keep every     *)
(* quotient the code forms (cashbackCap / rate, spend * rate) an integer,  *)
(* so \div is exact division.  toFixed(2) and toFixed(6) are modelled as   *)
(* rounding to the nearest cent and to the nearest 1/RateDen.  Time is a   *)
(* small integer clock.  Free-text and display-only fields (merchant,      *)
(* note, category, cardId) and the timestamps nothing reads back           *)
(* (Offer.createdAt, SpendLog.createdAt, AppStats.lastUpdatedAt) take no   *)
(* part in any computation and are left out of the records.                *)
(***************************************************************************)
EXTENDS Integers, FiniteSets, Sequences, TLC

VARIABLES
  offers,        \* db.offers: function from the ids present to Offer records
  spendLogs,     \* db.spendLogs: set of SpendLog records
  stats,         \* db.stats: {} or {the "app" row}
  now,           \* Date.now()
  nextOfferId,   \* next crypto.randomUUID() for an offer
  nextLogId,     \* next crypto.randomUUID() for a spend log
  page,          \* the page that is mounted
  snapshot,      \* the offers array useLiveQuery last delivered to the page
  effectDue,     \* the page's normalization effect has not yet run on it
  activeOffers,  \* dashboard: ids of normalizedOffers with status active
  editing,       \* handleEdit between its get and its put: {} or {record}
  opCount,       \* history: number of operations that wrote to the database
  lastOp,        \* history: the last operation that wrote to the database
  creditCount,   \* history: per offer id, times a non-zero earned amount was credited
  firstCredits,  \* history: offer id and credited cashbackEarned of each first credit, in order
  initialSpend,  \* history: per offer id, totalSpendTracked at creation
  edited,        \* history: ids stored through handleEdit
  deleted,       \* history: ids on which deleteOfferPermanently completed
  archivedRun,   \* history: ids archiveOffer has stored and delete has not removed
  mathOffer,     \* offer snapshot handed to the pure functions
  mathNow,       \* Date.now() seen by the pure functions
  mathResult,    \* what the pure function returned
  upgradeInput,  \* the tables of an older schema version a schema upgrade runs on
  upgradeResult  \* the tables after the upgrade, run once and run twice

vars == <<offers, spendLogs, stats, now, nextOfferId, nextLogId, page,
          snapshot, effectDue, activeOffers, editing, opCount, lastOp,
          creditCount, firstCredits, initialSpend, edited, deleted, archivedRun,
          mathOffer, mathNow, mathResult, upgradeInput, upgradeResult>>

dbVars == <<offers, spendLogs, stats, now, nextOfferId, nextLogId, page,
            snapshot, effectDue, activeOffers, editing, opCount, lastOp,
            creditCount, firstCredits, initialSpend, edited, deleted, archivedRun>>

mathVars == <<mathOffer, mathNow, mathResult>>

upgradeVars == <<upgradeInput, upgradeResult>>

(***************************************************************************)
(* Bounds                                                                  *)
(***************************************************************************)
MaxOffers == 1
MaxLogs == 2
MaxTime == 2
MaxCredits == 2
MaxOps == 4

OfferIds == 1..MaxOffers

\* the pages that show offers: HomeDashboard (quick log) and OfferManager
\* (create, edit).  HistoryPage runs the same live query and the same
\* normalization effect as these two and adds no operation of its own
\* (its delete button calls deleteOfferPermanently), so every database
\* state it can produce is produced with one of them mounted.
Pages == {"dashboard", "manager"}

(***************************************************************************)
(* Number helpers                                                          *)
(***************************************************************************)
Cent == 100
RateDen == 1000000
PercentDen == 10000
EPSILON == 100

Min(a, b) == IF a <= b THEN a ELSE b
Max(a, b) == IF a >= b THEN a ELSE b
Abs(a) == IF a < 0 THEN 0 - a ELSE a

\* Number(x.toFixed(2)): nearest cent, ties away from zero
ToFixed2(x) == IF x >= 0 THEN ((x + (Cent \div 2)) \div Cent) * Cent
                         ELSE 0 - (((0 - x) + (Cent \div 2)) \div Cent) * Cent

\* Number((a / b).toFixed(6)) as a rate, for a >= 0 and b > 0
RateOf(a, b) == ((2 * a * RateDen) + b) \div (2 * b)

\* the values of a division by zero: a number larger than every amount
\* stands for +Infinity, its negative for -Infinity, the next one for NaN
Infinity == 2000000000
NaN == Infinity + 1
Finite(x) == Abs(x) < Infinity

\* a / 0
OverZero(a) == IF a > 0 THEN Infinity ELSE IF a < 0 THEN 0 - Infinity ELSE NaN

\* a * rate and a / rate on money
MulRate(a, rate) == (a * rate) \div RateDen
DivRate(a, rate) == IF rate = 0 THEN OverZero(a) ELSE (a * RateDen) \div rate

\* a / b for b >= 0 as a count of 1/PercentDen, rounded down; the quotient
\* is formed in two steps of 100 so that no intermediate product leaves the
\* 32-bit range for amounts up to a few hundred dollars
Ratio(a, b) ==
  IF b = 0 THEN OverZero(a)
  ELSE LET r == a % b
           r1 == (r * 100) % b
       IN ((a \div b) * PercentDen) + (((r * 100) \div b) * 100)
            + ((r1 * 100) \div b)

\* optional fields: {} is undefined / null, {v} is the value v
None == {}
Some(v) == {v}
OrElse(opt, d) == IF opt = {} THEN d ELSE CHOOSE v \in opt : TRUE

(***************************************************************************)
(* src/lib/offers.ts                                                       *)
(***************************************************************************)
recalcOfferProgressStrict(offer) ==
  IF offer.rewardType = "threshold"
  THEN LET threshold == OrElse(offer.spendThreshold, 0)
           reward == OrElse(offer.rewardAmount, offer.cashbackCap)
           earned == IF offer.totalSpendTracked > threshold THEN reward ELSE 0
       IN IF threshold <= 0
          THEN [offer EXCEPT !.cashbackEarned = 0]
          ELSE [offer EXCEPT !.cashbackEarned = Min(earned, reward)]
  ELSE IF offer.rate <= 0
  THEN offer
  ELSE LET spendCap == DivRate(offer.cashbackCap, offer.rate)
           effectiveSpend == Min(offer.totalSpendTracked, spendCap)
           cashbackEarned == Min(MulRate(effectiveSpend, offer.rate),
                                 offer.cashbackCap)
       IN [offer EXCEPT !.cashbackEarned = cashbackEarned]

recalcOfferProgress(offer) ==
  IF offer.rewardType = "threshold"
  THEN LET threshold == OrElse(offer.spendThreshold, 0)
           reward == OrElse(offer.rewardAmount, offer.cashbackCap)
           earned == IF offer.totalSpendTracked >= threshold THEN reward ELSE 0
       IN IF threshold <= 0
          THEN [offer EXCEPT !.cashbackEarned = 0]
          ELSE [offer EXCEPT !.cashbackEarned = Min(earned, reward)]
  ELSE IF offer.rate <= 0
  THEN offer
  ELSE LET spendCap == DivRate(offer.cashbackCap, offer.rate)
           effectiveSpend == Min(offer.totalSpendTracked, spendCap)
           cashbackEarned == Min(MulRate(effectiveSpend, offer.rate),
                                 offer.cashbackCap)
       IN [offer EXCEPT !.cashbackEarned = cashbackEarned]

percentageEarnedUnclamped(offer) ==
  MulRate(offer.totalSpendTracked, offer.rate)

\* computeOfferStats, lines 71-73: earned of a percentage offer with rate > 0
percentageEarned(offer) ==
  LET spendCap == DivRate(offer.cashbackCap, offer.rate)
      effectiveSpend == Min(offer.totalSpendTracked, spendCap)
  IN Min(MulRate(effectiveSpend, offer.rate), offer.cashbackCap)

computeOfferStatsRateGuardStrict(offer) ==
  IF offer.rewardType = "threshold"
  THEN LET threshold == OrElse(offer.spendThreshold, 0)
           reward == OrElse(offer.rewardAmount, offer.cashbackCap)
           earned == IF offer.totalSpendTracked >= threshold THEN reward ELSE 0
       IN IF threshold <= 0
          THEN [earned |-> offer.cashbackEarned,
                remainCashback |-> Max(0, reward - offer.cashbackEarned),
                remainSpendToCap |-> 0,
                percent |-> 0]
          ELSE [earned |-> earned,
                remainCashback |-> Max(0, reward - earned),
                remainSpendToCap |-> Max(0, threshold - offer.totalSpendTracked),
                percent |-> Min(Ratio(offer.totalSpendTracked, threshold),
                                PercentDen)]
  ELSE IF offer.rate < 0
  THEN [earned |-> offer.cashbackEarned,
        remainCashback |-> 0,
        remainSpendToCap |-> 0,
        percent |-> 0]
  ELSE LET earned == percentageEarned(offer)
           remainCashback == Max(0, offer.cashbackCap - earned)
       IN [earned |-> earned,
           remainCashback |-> remainCashback,
           remainSpendToCap |-> IF remainCashback > 0
                                THEN DivRate(remainCashback, offer.rate) ELSE 0,
           percent |-> IF offer.cashbackCap > 0
                       THEN Min(Ratio(earned, offer.cashbackCap), PercentDen)
                       ELSE 0]

computeOfferStats(offer) ==
  IF offer.rewardType = "threshold"
  THEN LET threshold == OrElse(offer.spendThreshold, 0)
           reward == OrElse(offer.rewardAmount, offer.cashbackCap)
           earned == IF offer.totalSpendTracked >= threshold THEN reward ELSE 0
       IN IF threshold <= 0
          THEN [earned |-> offer.cashbackEarned,
                remainCashback |-> Max(0, reward - offer.cashbackEarned),
                remainSpendToCap |-> 0,
                percent |-> 0]
          ELSE [earned |-> earned,
                remainCashback |-> Max(0, reward - earned),
                remainSpendToCap |-> Max(0, threshold - offer.totalSpendTracked),
                percent |-> Min(Ratio(offer.totalSpendTracked, threshold),
                                PercentDen)]
  ELSE IF offer.rate <= 0
  THEN [earned |-> offer.cashbackEarned,
        remainCashback |-> 0,
        remainSpendToCap |-> 0,
        percent |-> 0]
  ELSE LET earned == percentageEarned(offer)
           remainCashback == Max(0, offer.cashbackCap - earned)
       IN [earned |-> earned,
           remainCashback |-> remainCashback,
           remainSpendToCap |-> IF remainCashback > 0
                                THEN DivRate(remainCashback, offer.rate) ELSE 0,
           percent |-> IF offer.cashbackCap > 0
                       THEN Min(Ratio(earned, offer.cashbackCap), PercentDen)
                       ELSE 0]

isMaxedOutNoTolerance(offer) ==
  IF offer.status = "archived" THEN FALSE
  ELSE IF offer.rewardType = "threshold"
  THEN LET threshold == OrElse(offer.spendThreshold, 0)
       IN IF threshold <= 0 THEN FALSE
          ELSE offer.totalSpendTracked >= threshold
  ELSE IF offer.cashbackCap <= 0 \/ offer.rate <= 0 THEN FALSE
  ELSE offer.cashbackEarned >= offer.cashbackCap

isMaxedOut(offer) ==
  IF offer.status = "archived" THEN FALSE
  ELSE IF offer.rewardType = "threshold"
  THEN LET threshold == OrElse(offer.spendThreshold, 0)
       IN IF threshold <= 0 THEN FALSE
          ELSE offer.totalSpendTracked >= threshold - EPSILON
  ELSE IF offer.cashbackCap <= 0 \/ offer.rate <= 0 THEN FALSE
  ELSE offer.cashbackEarned >= offer.cashbackCap - EPSILON

LARGE_NUMBER == Infinity

getRemainingSpendToCap(offer) ==
  IF offer.rewardType = "threshold"
  THEN LET threshold == OrElse(offer.spendThreshold, 0)
       IN IF threshold <= 0 THEN 0
          ELSE Max(0, threshold - offer.totalSpendTracked)
  ELSE IF offer.rate <= 0 THEN LARGE_NUMBER
  ELSE LET remainCashback == Max(0, offer.cashbackCap - offer.cashbackEarned)
       IN IF remainCashback <= EPSILON THEN 0
          ELSE DivRate(remainCashback, offer.rate)

computeStatusExpiresAtDeadline(offer, t) ==
  IF offer.status = "archived" THEN "archived"
  ELSE IF t >= offer.expireAt THEN "expired"
  ELSE IF isMaxedOut(offer) THEN "maxed"
  ELSE "active"

computeStatusMaxedFirst(offer, t) ==
  IF offer.status = "archived" THEN "archived"
  ELSE IF isMaxedOut(offer) THEN "maxed"
  ELSE IF t > offer.expireAt THEN "expired"
  ELSE "active"

\* t is the value Date.now() returns inside the call
computeStatus(offer, t) ==
  IF offer.status = "archived" THEN "archived"
  ELSE IF t > offer.expireAt THEN "expired"
  ELSE IF isMaxedOut(offer) THEN "maxed"
  ELSE "active"

normalizeOfferRecalc(offer, t) ==
  LET status == computeStatus(offer, t)
  IN IF status # offer.status /\ offer.status # "archived"
     THEN [recalcOfferProgress(offer) EXCEPT !.status = status,
                                             !.updatedAt = t]
     ELSE offer

normalizeOffer(offer, t) ==
  LET status == computeStatus(offer, t)
  IN IF status # offer.status /\ offer.status # "archived"
     THEN [offer EXCEPT !.status = status]
     ELSE offer

(***************************************************************************)
(* Offer form (src/components/offers/offer-manager.tsx, parseOfferForm)    *)
(* A form is the record of the numbers Number() yields for its fields;     *)
(* ratePercent is a whole percentage.                                      *)
(***************************************************************************)
parseThresholdForm(form) ==
  LET totalSpendTracked == ToFixed2(form.totalSpendTracked)
      spendThreshold == form.spendThreshold
      rewardAmount == form.rewardAmount
      manualEarned == Min(Max(0, form.cashbackEarned), rewardAmount)
      thresholdMet == totalSpendTracked >= spendThreshold - Cent
      computedEarned == IF thresholdMet THEN rewardAmount ELSE 0
      cashbackEarned == Max(manualEarned, computedEarned)
  IN IF spendThreshold <= 0 \/ rewardAmount <= 0
     THEN [error |-> TRUE]
     ELSE [error |-> FALSE,
           rate |-> RateOf(rewardAmount, spendThreshold),
           cashbackCap |-> ToFixed2(rewardAmount),
           cashbackEarned |-> ToFixed2(Min(cashbackEarned, rewardAmount)),
           totalSpendTracked |-> totalSpendTracked,
           expireAt |-> form.expireAt,
           rewardType |-> "threshold",
           rewardAmount |-> Some(ToFixed2(rewardAmount)),
           spendThreshold |-> Some(ToFixed2(spendThreshold))]

parsePercentageForm(form) ==
  LET totalSpendTracked == ToFixed2(form.totalSpendTracked)
      cashbackCap == form.cashbackCap
      rate == form.ratePercent * (RateDen \div 100)
      spendCap == DivRate(cashbackCap, rate)
      clampedSpend == Min(Max(totalSpendTracked, 0), spendCap)
      autoEarned == Min(MulRate(clampedSpend, rate), cashbackCap)
      manualEarned == Min(form.cashbackEarned, cashbackCap)
      manualDiffers == Abs(manualEarned - autoEarned) > Cent
      adjustedSpend == IF manualDiffers
                       THEN Min(Max(DivRate(manualEarned, rate), 0), spendCap)
                       ELSE clampedSpend
  IN IF form.ratePercent <= 0 \/ cashbackCap <= 0 \/ form.cashbackEarned < 0
     THEN [error |-> TRUE]
     ELSE [error |-> FALSE,
           rate |-> rate,
           cashbackCap |-> cashbackCap,
           cashbackEarned |-> IF manualDiffers THEN ToFixed2(manualEarned)
                                               ELSE ToFixed2(autoEarned),
           totalSpendTracked |-> ToFixed2(adjustedSpend),
           expireAt |-> form.expireAt,
           rewardType |-> "percentage",
           rewardAmount |-> Some(ToFixed2(cashbackCap)),
           spendThreshold |-> Some(ToFixed2(DivRate(cashbackCap, rate)))]

parseOfferForm(form) ==
  IF form.expireAt = 0 \/ form.totalSpendTracked < 0
  THEN [error |-> TRUE]
  ELSE IF form.rewardType = "threshold"
  THEN parseThresholdForm(form)
  ELSE parsePercentageForm(form)

\* { ...base, ...parsed.data }: the parsed fields laid over a record
withData(base, data) ==
  [base EXCEPT !.rate = data.rate,
               !.cashbackCap = data.cashbackCap,
               !.cashbackEarned = data.cashbackEarned,
               !.totalSpendTracked = data.totalSpendTracked,
               !.expireAt = data.expireAt,
               !.rewardType = data.rewardType,
               !.rewardAmount = data.rewardAmount,
               !.spendThreshold = data.spendThreshold]

\* the forms a user submits: percentage offers, with a valid and an invalid
\* rate.  What the store, the pages and the transactions do with an offer
\* does not depend on its reward type; the threshold arithmetic is
\* exercised on stored offers of every shape by the pure-function
\* specification below.
PercentageForms ==
  [rewardType : {"percentage"}, ratePercent : {0, 50}, cashbackCap : {2 * Cent},
   cashbackEarned : {0}, totalSpendTracked : {Cent},
   expireAt : {1}, rewardAmount : {0}, spendThreshold : {0}]

Forms == PercentageForms

\* the form a user submits when editing: the tracked spend is retyped as 0
EditForms ==
  [rewardType : {"percentage"}, ratePercent : {50}, cashbackCap : {2 * Cent},
   cashbackEarned : {0}, totalSpendTracked : {0},
   expireAt : {1}, rewardAmount : {0}, spendThreshold : {0}]

\* the purchase amounts a user logs
Amounts == {2 * Cent}

(***************************************************************************)
(* Tables                                                                  *)
(***************************************************************************)
NoOffers == [i \in {} |-> 0]

\* table.put(record) on a table keyed by id
Put(table, rec) ==
  [i \in (DOMAIN table) \cup {rec.id} |-> IF i = rec.id THEN rec ELSE table[i]]

\* table.delete(id)
Remove(table, id) == [i \in (DOMAIN table) \ {id} |-> table[i]]

\* Promise.all(updates.map(put))
PutAll(table, updates) ==
  [i \in (DOMAIN table) \cup (DOMAIN updates) |->
     IF i \in DOMAIN updates THEN updates[i] ELSE table[i]]

committedPartial(before, after, failed) == after

\* db.transaction("rw", ...): the table a transaction leaves behind; when its
\* scope rejects the transaction aborts and none of its writes is kept
committed(before, after, failed) == IF failed THEN before ELSE after

lifetimeCashbackEarned ==
  IF stats = {} THEN 0 ELSE (CHOOSE r \in stats : TRUE).lifetimeCashbackEarned

NoOp == [op |-> "none", id |-> 0, n |-> 0, found |-> FALSE]

(***************************************************************************)
(* Initial state: an empty store, no page has rendered yet                 *)
(***************************************************************************)
DbInit ==
  /\ offers = NoOffers
  /\ spendLogs = {}
  /\ stats = {}
  /\ now = 1
  /\ nextOfferId = 1
  /\ nextLogId = 1
  /\ page = "dashboard"
  /\ snapshot = NoOffers
  /\ effectDue = FALSE
  /\ activeOffers = {}
  /\ editing = {}
  /\ opCount = 0
  /\ lastOp = NoOp
  /\ creditCount = [i \in OfferIds |-> 0]
  /\ firstCredits = <<>>
  /\ initialSpend = [i \in OfferIds |-> 0]
  /\ edited = {}
  /\ deleted = {}
  /\ archivedRun = {}

MathIdle ==
  /\ mathOffer = NoOffers
  /\ mathNow = 0
  /\ mathResult = [op |-> "none"]

UpgradeIdle ==
  /\ upgradeInput = [offers |-> NoOffers, stats |-> {}]
  /\ upgradeResult = [op |-> "none"]

Init == DbInit /\ MathIdle /\ UpgradeIdle

(***************************************************************************)
(* Operations                                                              *)
(***************************************************************************)
\* time passes
Tick ==
  /\ now < MaxTime
  /\ now' = now + 1
  /\ UNCHANGED <<offers, spendLogs, stats, nextOfferId, nextLogId, page, snapshot,
                 effectDue, activeOffers, editing, opCount, lastOp, creditCount, firstCredits,
                 initialSpend, edited, deleted, archivedRun>>
  /\ UNCHANGED mathVars
  /\ UNCHANGED upgradeVars

\* OfferManager.handleCreate
handleCreate(form) ==
  LET parsed == parseOfferForm(form)
      id == nextOfferId
      draft == recalcOfferProgress(
                 [id |-> id,
                  rate |-> parsed.rate,
                  cashbackCap |-> parsed.cashbackCap,
                  cashbackEarned |-> parsed.cashbackEarned,
                  totalSpendTracked |-> parsed.totalSpendTracked,
                  expireAt |-> parsed.expireAt,
                  rewardType |-> parsed.rewardType,
                  rewardAmount |-> parsed.rewardAmount,
                  spendThreshold |-> parsed.spendThreshold,
                  status |-> "active",
                  archivedAt |-> None,
                  creditedToLifetime |-> FALSE,
                  updatedAt |-> now])
      normalized == normalizeOffer(draft, now)
  IN /\ page = "manager"
     /\ nextOfferId <= MaxOffers
     /\ ~parsed.error
     /\ offers' = Put(offers, normalized)
     /\ nextOfferId' = nextOfferId + 1
     /\ initialSpend' = [initialSpend EXCEPT ![id] = normalized.totalSpendTracked]
     /\ opCount < MaxOps
     /\ opCount' = opCount + 1
     /\ lastOp' = [op |-> "handleCreate", id |-> id, n |-> 0, found |-> TRUE]
     /\ UNCHANGED <<spendLogs, stats, now, nextLogId, page, snapshot, effectDue,
                    activeOffers, editing, creditCount, firstCredits, edited, deleted,
                    archivedRun>>
     /\ UNCHANGED mathVars
     /\ UNCHANGED upgradeVars

\* OfferManager.handleEdit up to the end of `await db.offers.get(editingId)`
handleEditGet(id, form) ==
  LET parsed == parseOfferForm(form)
  IN /\ editing = {}
     /\ page = "manager"
     /\ id \in DOMAIN snapshot
     /\ ~parsed.error
     /\ id \in DOMAIN offers
     /\ editing' = {[existing |-> offers[id], data |-> parsed, now |-> now]}
     /\ UNCHANGED <<offers, spendLogs, stats, now, nextOfferId, nextLogId,
                    page, snapshot, effectDue, activeOffers, opCount, lastOp, creditCount, firstCredits,
                    initialSpend, edited, deleted, archivedRun>>
     /\ UNCHANGED mathVars
     /\ UNCHANGED upgradeVars

\* OfferManager.handleEdit from the get's result to `db.offers.put(normalized)`
handleEditPut ==
  /\ editing # {}
  /\ LET e == CHOOSE x \in editing : TRUE
         existing == e.existing
         updated == recalcOfferProgress(
                      [withData(existing, e.data) EXCEPT !.updatedAt = e.now])
         normalized == IF existing.status = "archived"
                       THEN updated ELSE normalizeOffer(updated, now)
     IN /\ offers' = Put(offers, normalized)
        /\ edited' = edited \cup {existing.id}
        /\ opCount < MaxOps
        /\ opCount' = opCount + 1
        /\ lastOp' = [op |-> "handleEdit", id |-> existing.id, n |-> 0,
                      found |-> existing.id \in DOMAIN offers]
  /\ editing' = {}
  /\ UNCHANGED <<spendLogs, stats, now, nextOfferId, nextLogId, page, snapshot,
                 effectDue, activeOffers, creditCount, firstCredits, initialSpend, deleted,
                 archivedRun>>
  /\ UNCHANGED mathVars
  /\ UNCHANGED upgradeVars

handleSubmitKeepsLog(id, numericAmount) ==
  /\ page = "dashboard"
  /\ id \in activeOffers
  /\ numericAmount > 0
  /\ nextLogId <= MaxLogs
  /\ nextLogId' = nextLogId + 1
  /\ LET added == spendLogs \cup
                    {[id |-> nextLogId, offerId |-> id,
                      amount |-> numericAmount]}
         thrown == id \notin DOMAIN offers
         updated == IF thrown THEN offers
                    ELSE Put(offers,
                           [offers[id] EXCEPT
                              !.totalSpendTracked =
                                 ToFixed2(offers[id].totalSpendTracked
                                            + numericAmount),
                              !.updatedAt = now])
     IN /\ spendLogs' = added
        /\ offers' = committed(offers, updated, thrown)
  /\ opCount < MaxOps
  /\ opCount' = opCount + 1
  /\ lastOp' = [op |-> "handleSubmit", id |-> id, n |-> 0,
                found |-> id \in DOMAIN offers]
  /\ UNCHANGED <<stats, now, nextOfferId, page, snapshot, effectDue, activeOffers,
                 editing, creditCount, firstCredits, initialSpend, edited, deleted,
                 archivedRun>>
  /\ UNCHANGED mathVars
  /\ UNCHANGED upgradeVars

\* QuickLogPanel.handleSubmit: one transaction over offers and spendLogs;
\* the throw on a missing offer aborts it, so the added log is rolled back
handleSubmit(id, numericAmount) ==
  /\ page = "dashboard"
  /\ id \in activeOffers
  /\ numericAmount > 0
  /\ nextLogId <= MaxLogs
  /\ nextLogId' = nextLogId + 1
  /\ LET added == spendLogs \cup
                    {[id |-> nextLogId, offerId |-> id,
                      amount |-> numericAmount]}
         thrown == id \notin DOMAIN offers
         updated == IF thrown THEN offers
                    ELSE Put(offers,
                           [offers[id] EXCEPT
                              !.totalSpendTracked =
                                 ToFixed2(offers[id].totalSpendTracked
                                            + numericAmount),
                              !.updatedAt = now])
     IN /\ spendLogs' = committed(spendLogs, added, thrown)
        /\ offers' = committed(offers, updated, thrown)
  /\ opCount < MaxOps
  /\ opCount' = opCount + 1
  /\ lastOp' = [op |-> "handleSubmit", id |-> id, n |-> 0,
                found |-> id \in DOMAIN offers]
  /\ UNCHANGED <<stats, now, nextOfferId, page, snapshot, effectDue, activeOffers,
                 editing, creditCount, firstCredits, initialSpend, edited, deleted,
                 archivedRun>>
  /\ UNCHANGED mathVars
  /\ UNCHANGED upgradeVars

\* history of the credits: the first credit of an offer is appended
firstCredit(offerId, earned) ==
  IF \E k \in DOMAIN firstCredits : firstCredits[k].id = offerId
  THEN firstCredits
  ELSE Append(firstCredits, [id |-> offerId, earned |-> earned])

\* getOrCreateStats followed by the update of archiveOffer, as one row
creditedStats(amount) ==
  {[id |-> "app",
    lifetimeCashbackEarned |-> ToFixed2(lifetimeCashbackEarned + amount)]}

archiveOfferNoFlag(offerId) ==
  /\ offerId \in DOMAIN offers
  /\ creditCount[offerId] < MaxCredits
  /\ LET finalized == recalcOfferProgress(offers[offerId])
     IN /\ stats' = creditedStats(finalized.cashbackEarned)
        /\ creditCount' = IF finalized.cashbackEarned # 0
                          THEN [creditCount EXCEPT ![offerId] = @ + 1]
                          ELSE creditCount
        /\ firstCredits' = firstCredit(offerId, finalized.cashbackEarned)
        /\ offers' = Put(offers,
             [finalized EXCEPT
                !.status = "archived",
                !.archivedAt = IF finalized.archivedAt = None
                               THEN Some(now) ELSE finalized.archivedAt,
                !.updatedAt = now,
                !.creditedToLifetime = TRUE])
  /\ archivedRun' = archivedRun \cup {offerId}
  /\ opCount < MaxOps
  /\ opCount' = opCount + 1
  /\ lastOp' = [op |-> "archiveOffer", id |-> offerId,
                n |-> IF lastOp.op = "archiveOffer" /\ lastOp.id = offerId
                         /\ lastOp.found
                      THEN 2 ELSE 1,
                found |-> TRUE]
  /\ UNCHANGED <<spendLogs, now, nextOfferId, nextLogId, page, snapshot, effectDue,
                 activeOffers, editing, initialSpend, edited, deleted>>
  /\ UNCHANGED mathVars
  /\ UNCHANGED upgradeVars

archiveOfferNotFoundMakesStats(offerId) ==
  /\ opCount < MaxOps
  /\ opCount' = opCount + 1
  /\ lastOp' = [op |-> "archiveOffer", id |-> offerId, n |-> 0,
                found |-> FALSE]
  /\ stats' = IF stats = {} THEN creditedStats(0) ELSE stats
  /\ UNCHANGED <<offers, spendLogs, now, nextOfferId, nextLogId,
                 page, snapshot, effectDue, activeOffers, editing, creditCount, firstCredits,
                 initialSpend, edited, deleted, archivedRun>>
  /\ UNCHANGED mathVars
  /\ UNCHANGED upgradeVars

\* archiveOffer when db.offers.get finds nothing: `if (!offer) return;`
archiveOfferNotFound(offerId) ==
  /\ opCount < MaxOps
  /\ opCount' = opCount + 1
  /\ lastOp' = [op |-> "archiveOffer", id |-> offerId, n |-> 0,
                found |-> FALSE]
  /\ UNCHANGED <<offers, spendLogs, stats, now, nextOfferId, nextLogId,
                 page, snapshot, effectDue, activeOffers, editing, creditCount, firstCredits,
                 initialSpend, edited, deleted, archivedRun>>
  /\ UNCHANGED mathVars
  /\ UNCHANGED upgradeVars

archiveOfferMovesTimestamp(offerId) ==
  IF offerId \notin DOMAIN offers
  THEN archiveOfferNotFound(offerId)
  ELSE LET recalced == recalcOfferProgress(offers[offerId])
           finalized == [recalced EXCEPT
                           !.status = "archived",
                           !.archivedAt = Some(now),
                           !.updatedAt = now]
           credit == ~finalized.creditedToLifetime
           stored == [finalized EXCEPT
                        !.creditedToLifetime = TRUE,
                        !.status = computeStatus(finalized, now)]
       IN /\ credit => creditCount[offerId] < MaxCredits
          /\ stats' = IF credit THEN creditedStats(finalized.cashbackEarned)
                                ELSE stats
          /\ creditCount' = IF credit /\ finalized.cashbackEarned # 0
                            THEN [creditCount EXCEPT ![offerId] = @ + 1]
                            ELSE creditCount
          /\ firstCredits' = IF credit
                             THEN firstCredit(offerId, finalized.cashbackEarned)
                             ELSE firstCredits
          /\ offers' = Put(offers, stored)
          /\ archivedRun' = archivedRun \cup {offerId}
          /\ opCount < MaxOps
          /\ opCount' = opCount + 1
          /\ lastOp' = [op |-> "archiveOffer", id |-> offerId,
                        n |-> IF lastOp.op = "archiveOffer"
                                 /\ lastOp.id = offerId /\ lastOp.found
                              THEN 2 ELSE 1,
                        found |-> TRUE]
          /\ UNCHANGED <<spendLogs, now, nextOfferId, nextLogId, page, snapshot,
                         effectDue, activeOffers, editing, initialSpend,
                         edited, deleted>>
          /\ UNCHANGED mathVars
          /\ UNCHANGED upgradeVars

\* offer-actions.archiveOffer: one transaction over offers and stats
archiveOffer(offerId) ==
  IF offerId \notin DOMAIN offers
  THEN archiveOfferNotFound(offerId)
  ELSE LET recalced == recalcOfferProgress(offers[offerId])
           finalized == [recalced EXCEPT
                           !.status = "archived",
                           !.archivedAt = IF recalced.archivedAt = None
                                          THEN Some(now)
                                          ELSE recalced.archivedAt,
                           !.updatedAt = now]
           credit == ~finalized.creditedToLifetime
           stored == [finalized EXCEPT
                        !.creditedToLifetime = TRUE,
                        !.status = computeStatus(finalized, now)]
       IN /\ credit => creditCount[offerId] < MaxCredits
          /\ stats' = IF credit THEN creditedStats(finalized.cashbackEarned)
                                ELSE stats
          /\ creditCount' = IF credit /\ finalized.cashbackEarned # 0
                            THEN [creditCount EXCEPT ![offerId] = @ + 1]
                            ELSE creditCount
          /\ firstCredits' = IF credit
                             THEN firstCredit(offerId, finalized.cashbackEarned)
                             ELSE firstCredits
          /\ offers' = Put(offers, stored)
          /\ archivedRun' = archivedRun \cup {offerId}
          /\ opCount < MaxOps
          /\ opCount' = opCount + 1
          /\ lastOp' = [op |-> "archiveOffer", id |-> offerId,
                        n |-> IF lastOp.op = "archiveOffer"
                                 /\ lastOp.id = offerId /\ lastOp.found
                              THEN 2 ELSE 1,
                        found |-> TRUE]
          /\ UNCHANGED <<spendLogs, now, nextOfferId, nextLogId, page, snapshot,
                         effectDue, activeOffers, editing, initialSpend,
                         edited, deleted>>
          /\ UNCHANGED mathVars
          /\ UNCHANGED upgradeVars

\* archiveOffer when a request of its transaction is rejected by the store:
\* the last one, db.offers.put, after the stats row has been put
archiveOfferRejected(offerId) ==
  /\ offerId \in DOMAIN offers
  /\ LET finalized == recalcOfferProgress(offers[offerId])
         credited == IF finalized.creditedToLifetime THEN stats
                     ELSE creditedStats(finalized.cashbackEarned)
     IN stats' = committed(stats, credited, TRUE)
  /\ offers' = committed(offers, offers, TRUE)
  /\ opCount < MaxOps
  /\ opCount' = opCount + 1
  /\ lastOp' = [op |-> "archiveOffer rejected", id |-> offerId, n |-> 0,
                found |-> TRUE]
  /\ UNCHANGED <<spendLogs, now, nextOfferId, nextLogId, page, snapshot,
                 effectDue, activeOffers, editing, creditCount, firstCredits, initialSpend,
                 edited, deleted, archivedRun>>
  /\ UNCHANGED mathVars
  /\ UNCHANGED upgradeVars

\* deleteOfferPermanently when db.offers.delete is rejected by the store,
\* after the offer's spend logs have been deleted
deleteOfferPermanentlyRejected(offerId) ==
  /\ offerId \in DOMAIN offers
  /\ spendLogs' = committed(spendLogs,
                            {l \in spendLogs : l.offerId # offerId}, TRUE)
  /\ offers' = committed(offers, offers, TRUE)
  /\ opCount < MaxOps
  /\ opCount' = opCount + 1
  /\ lastOp' = [op |-> "deleteOfferPermanently rejected", id |-> offerId,
                n |-> Cardinality({l \in spendLogs : l.offerId = offerId}),
                found |-> TRUE]
  /\ UNCHANGED <<stats, now, nextOfferId, nextLogId, page, snapshot,
                 effectDue, activeOffers, editing, creditCount, firstCredits, initialSpend,
                 edited, deleted, archivedRun>>
  /\ UNCHANGED mathVars
  /\ UNCHANGED upgradeVars

deleteOfferPermanentlyKeepLogs(offerId) ==
  /\ offerId < nextOfferId
  /\ offers' = Remove(offers, offerId)
  /\ deleted' = deleted \cup {offerId}
  /\ opCount < MaxOps
  /\ opCount' = opCount + 1
  /\ lastOp' = [op |-> "deleteOfferPermanently", id |-> offerId,
                n |-> Cardinality({l \in spendLogs : l.offerId = offerId}),
                found |-> offerId \in DOMAIN offers]
  /\ archivedRun' = archivedRun \ {offerId}
  /\ UNCHANGED <<spendLogs, stats, now, nextOfferId, nextLogId, page, snapshot,
                 effectDue, activeOffers, editing, creditCount, firstCredits, initialSpend,
                 edited>>
  /\ UNCHANGED mathVars
  /\ UNCHANGED upgradeVars

\* offer-actions.deleteOfferPermanently: one transaction over offers, spendLogs
deleteOfferPermanently(offerId) ==
  /\ offerId < nextOfferId
  /\ spendLogs' = {l \in spendLogs : l.offerId # offerId}
  /\ offers' = Remove(offers, offerId)
  /\ deleted' = deleted \cup {offerId}
  /\ opCount < MaxOps
  /\ opCount' = opCount + 1
  /\ lastOp' = [op |-> "deleteOfferPermanently", id |-> offerId,
                n |-> Cardinality({l \in spendLogs : l.offerId = offerId}),
                found |-> offerId \in DOMAIN offers]
  /\ archivedRun' = archivedRun \ {offerId}
  /\ UNCHANGED <<stats, now, nextOfferId, nextLogId, page, snapshot, effectDue,
                 activeOffers, editing, creditCount, firstCredits, initialSpend, edited>>
  /\ UNCHANGED mathVars
  /\ UNCHANGED upgradeVars

\* the router mounts another page; its live query starts from EMPTY_OFFERS
navigate(target) ==
  /\ target # page
  /\ page' = target
  /\ snapshot' = NoOffers
  /\ effectDue' = FALSE
  /\ activeOffers' = {}
  /\ UNCHANGED <<offers, spendLogs, stats, now, nextOfferId, nextLogId,
                 editing, opCount, lastOp, creditCount, firstCredits, initialSpend, edited, deleted,
                 archivedRun>>
  /\ UNCHANGED mathVars
  /\ UNCHANGED upgradeVars

\* useLiveQuery delivers the offers table to the page; the dashboard derives
\* normalizedOffers and activeOffers from it in the same render
liveQuery ==
  /\ snapshot # offers
  /\ snapshot' = offers
  /\ effectDue' = TRUE
  /\ activeOffers' =
       IF page = "dashboard"
       THEN {i \in DOMAIN offers : normalizeOffer(offers[i], now).status = "active"}
       ELSE {}
  /\ UNCHANGED <<offers, spendLogs, stats, now, nextOfferId, nextLogId, page,
                 editing, opCount, lastOp, creditCount, firstCredits, initialSpend, edited, deleted,
                 archivedRun>>
  /\ UNCHANGED mathVars
  /\ UNCHANGED upgradeVars

normalizationUpdatesEveryOffer ==
  [i \in DOMAIN snapshot |-> normalizeOffer(snapshot[i], now)]

\* the offers the normalization effect writes back
normalizationUpdates ==
  LET changed == {i \in DOMAIN snapshot :
                    normalizeOffer(snapshot[i], now).status # snapshot[i].status}
  IN [i \in changed |-> normalizeOffer(snapshot[i], now)]

\* the normalization effect of HomeDashboard, HistoryPage and OfferManager
\* (the same code in the three pages) with its transaction
normalizationEffect ==
  LET updates == normalizationUpdates
  IN /\ effectDue
     /\ effectDue' = FALSE
     /\ offers' = PutAll(offers, updates)
     /\ DOMAIN updates # {} => opCount < MaxOps
     /\ opCount' = IF DOMAIN updates = {} THEN opCount ELSE opCount + 1
     /\ lastOp' = IF DOMAIN updates = {} THEN lastOp
                  ELSE [op |-> "normalization", id |-> 0,
                        n |-> Cardinality(DOMAIN updates), found |-> TRUE]
     /\ UNCHANGED <<spendLogs, stats, now, nextOfferId, nextLogId, page,
                    snapshot, activeOffers, editing, creditCount, firstCredits, initialSpend,
                    edited, deleted, archivedRun>>
     /\ UNCHANGED mathVars
     /\ UNCHANGED upgradeVars

Next ==
  \/ Tick
  \/ \E form \in Forms : handleCreate(form)
  \/ \E id \in OfferIds, form \in EditForms : handleEditGet(id, form)
  \/ handleEditPut
  \/ \E id \in OfferIds, amount \in Amounts : handleSubmit(id, amount)
  \/ \E id \in OfferIds : archiveOffer(id)
  \/ \E id \in OfferIds : deleteOfferPermanently(id)
  \/ \E id \in OfferIds : archiveOfferRejected(id)
  \/ \E id \in OfferIds : deleteOfferPermanentlyRejected(id)
  \/ \E target \in Pages : navigate(target)
  \/ liveQuery
  \/ normalizationEffect

Spec == Init /\ [][Next]_vars

\* the same program with the scheduling React and Dexie give the mounted
\* page: a changed offers table is always delivered to its live query, and
\* an effect whose dependencies changed always runs.  Time and the user are
\* under no obligation.
FairSpec ==
  /\ Spec
  /\ WF_vars(liveQuery)
  /\ WF_vars(normalizationEffect)

(***************************************************************************)
(* The pure functions of src/lib/offers.ts on arbitrary stored offers,     *)
(* degenerate ones included                                                *)
(***************************************************************************)
MathOffers ==
  [id : {1},
   rate : {0 - (RateDen \div 2), 0, RateDen \div 2},
   cashbackCap : {0 - (2 * Cent), 0, 2 * Cent},
   cashbackEarned : {0 - Cent, 0, Cent \div 2, Cent, 2 * Cent},
   totalSpendTracked : {0 - Cent, 0, Cent, 2 * Cent, 4 * Cent, 6 * Cent},
   expireAt : {2},
   rewardType : {"percentage", "threshold"},
   rewardAmount : {None, Some(3 * Cent)},
   spendThreshold : {None, Some(0), Some(0 - (3 * Cent)), Some(3 * Cent)},
   status : {"active", "expired", "maxed", "archived"},
   archivedAt : {None},
   creditedToLifetime : {FALSE},
   updatedAt : {1}]

MathTimes == {1, 2, 3}

\* a threshold offer "spend 125, get 25" one cent short of the threshold, at
\* the threshold and one cent past it
ScenarioOffers ==
  [id : {1},
   rate : {RateDen \div 5},
   cashbackCap : {2500 * Cent},
   cashbackEarned : {0, 2500 * Cent},
   totalSpendTracked : {12499 * Cent, 12500 * Cent, 12501 * Cent},
   expireAt : {2},
   rewardType : {"threshold"},
   rewardAmount : {Some(2500 * Cent)},
   spendThreshold : {Some(12500 * Cent)},
   status : {"active", "expired", "maxed"},
   archivedAt : {None},
   creditedToLifetime : {FALSE},
   updatedAt : {1}]

MathInit ==
  /\ DbInit
  /\ mathOffer \in MathOffers \cup ScenarioOffers
  /\ mathNow \in MathTimes
  /\ mathResult = [op |-> "none"]
  /\ UpgradeIdle

applyComputeStatus ==
  /\ mathResult' = [op |-> "computeStatus",
                    status |-> computeStatus(mathOffer, mathNow)]
  /\ UNCHANGED <<mathOffer, mathNow>>
  /\ UNCHANGED dbVars
  /\ UNCHANGED upgradeVars

applyNormalizeOffer ==
  /\ mathResult' =
       [op |-> "normalizeOffer",
        once |-> normalizeOffer(mathOffer, mathNow),
        twice |-> normalizeOffer(normalizeOffer(mathOffer, mathNow), mathNow)]
  /\ UNCHANGED <<mathOffer, mathNow>>
  /\ UNCHANGED dbVars
  /\ UNCHANGED upgradeVars

applyComputeOfferStats ==
  /\ mathResult' = [op |-> "computeOfferStats",
                    stats |-> computeOfferStats(mathOffer)]
  /\ UNCHANGED <<mathOffer, mathNow>>
  /\ UNCHANGED dbVars
  /\ UNCHANGED upgradeVars

applyIsMaxedOut ==
  /\ mathResult' = [op |-> "isMaxedOut", maxed |-> isMaxedOut(mathOffer)]
  /\ UNCHANGED <<mathOffer, mathNow>>
  /\ UNCHANGED dbVars
  /\ UNCHANGED upgradeVars

applyRecalcOfferProgress ==
  /\ mathResult' = [op |-> "recalcOfferProgress",
                    offer |-> recalcOfferProgress(mathOffer)]
  /\ UNCHANGED <<mathOffer, mathNow>>
  /\ UNCHANGED dbVars
  /\ UNCHANGED upgradeVars

applyGetRemainingSpendToCap ==
  /\ mathResult' = [op |-> "getRemainingSpendToCap",
                    remain |-> getRemainingSpendToCap(mathOffer)]
  /\ UNCHANGED <<mathOffer, mathNow>>
  /\ UNCHANGED dbVars
  /\ UNCHANGED upgradeVars

MathNext ==
  \/ applyComputeStatus
  \/ applyNormalizeOffer
  \/ applyComputeOfferStats
  \/ applyIsMaxedOut
  \/ applyRecalcOfferProgress
  \/ applyGetRemainingSpendToCap

MathSpec == MathInit /\ [][MathNext]_vars

(***************************************************************************)
(* Schema upgrades (src/lib/db.ts, version(2).upgrade, version(3).upgrade) *)
(* A record stored under an older schema may lack fields.  A field of such *)
(* a record is Absent (no such key), Null (the key holds null or           *)
(* undefined) or Val(v).                                                   *)
(***************************************************************************)
Absent == {}
Null == {{}}
Val(v) == {{v}}

\* x == null, also true of a key that is absent
IsNullish(field) == field = Absent \/ field = Null

\* the value a field with a non-null value holds
ValueOf(field) == CHOOSE v \in UNION field : TRUE

\* !x for a string field
IsFalsy(field) == IsNullish(field) \/ ValueOf(field) = ""

\* x ?? d
Coalesce(field, d) == IF IsNullish(field) THEN d ELSE ValueOf(field)

upgradeV2OfferAbsentOnly(offer) ==
  LET withStatus ==
        IF offer.status = Absent
        THEN [offer EXCEPT !.status = Val("active")] ELSE offer
      withCredited ==
        IF IsNullish(withStatus.creditedToLifetime)
        THEN [withStatus EXCEPT !.creditedToLifetime = Val(FALSE)]
        ELSE withStatus
  IN IF withCredited.archivedAt = Absent
     THEN [withCredited EXCEPT !.archivedAt = Null] ELSE withCredited

\* the modify callback of version(2).upgrade
upgradeV2Offer(offer) ==
  LET withStatus ==
        IF offer.status = Absent \/ IsFalsy(offer.status)
        THEN [offer EXCEPT !.status = Val("active")] ELSE offer
      withCredited ==
        IF withStatus.creditedToLifetime = Absent
             \/ IsNullish(withStatus.creditedToLifetime)
        THEN [withStatus EXCEPT !.creditedToLifetime = Val(FALSE)]
        ELSE withStatus
  IN IF withCredited.archivedAt = Absent
     THEN [withCredited EXCEPT !.archivedAt = Null] ELSE withCredited

upgradeV2StatsFresh(rows) == {[id |-> "app", lifetimeCashbackEarned |-> 0]}

\* version(2).upgrade on the stats table
upgradeV2Stats(rows) ==
  IF rows = {} THEN {[id |-> "app", lifetimeCashbackEarned |-> 0]} ELSE rows

upgradeV2(db) ==
  [offers |-> [i \in DOMAIN db.offers |-> upgradeV2Offer(db.offers[i])],
   stats |-> upgradeV2Stats(db.stats)]

upgradeV3OfferNoRateGuard(offer) ==
  LET typed == IF IsFalsy(offer.rewardType)
               THEN [offer EXCEPT !.rewardType = Val("percentage")] ELSE offer
      cap == Coalesce(typed.cashbackCap, 0)
      rewarded == IF IsNullish(typed.rewardAmount)
                  THEN [typed EXCEPT !.rewardAmount = Val(cap)] ELSE typed
  IN IF ValueOf(typed.rewardType) = "percentage"
     THEN IF IsNullish(rewarded.spendThreshold)
          THEN [rewarded EXCEPT !.spendThreshold = Val(DivRate(cap, typed.rate))]
          ELSE rewarded
     ELSE IF IsNullish(rewarded.spendThreshold)
          THEN [rewarded EXCEPT !.spendThreshold = Val(0)]
          ELSE rewarded

\* the modify callback of version(3).upgrade
upgradeV3Offer(offer) ==
  LET typed == IF IsFalsy(offer.rewardType)
               THEN [offer EXCEPT !.rewardType = Val("percentage")] ELSE offer
      cap == Coalesce(typed.cashbackCap, 0)
      rewarded == IF IsNullish(typed.rewardAmount)
                  THEN [typed EXCEPT !.rewardAmount = Val(cap)] ELSE typed
  IN IF ValueOf(typed.rewardType) = "percentage"
     THEN IF IsNullish(rewarded.spendThreshold) /\ typed.rate > 0
          THEN [rewarded EXCEPT !.spendThreshold = Val(DivRate(cap, typed.rate))]
          ELSE rewarded
     ELSE IF IsNullish(rewarded.spendThreshold)
          THEN [rewarded EXCEPT !.spendThreshold = Val(0)]
          ELSE rewarded

upgradeV3(db) ==
  [offers |-> [i \in DOMAIN db.offers |-> upgradeV3Offer(db.offers[i])],
   stats |-> db.stats]

\* the offer records an older version of the application left in the store
LegacyOffers ==
  [id : {1},
   rate : {0 - (RateDen \div 2), 0, RateDen \div 2},
   cashbackCap : {Absent, Val(2 * Cent)},
   cashbackEarned : {Cent},
   totalSpendTracked : {Cent},
   expireAt : {2},
   status : {Absent, Null, Val(""), Val("active"), Val("archived")},
   creditedToLifetime : {Absent, Null, Val(FALSE), Val(TRUE)},
   archivedAt : {Absent, Null, Val(1)},
   rewardType : {Absent, Val(""), Val("percentage"), Val("threshold")},
   rewardAmount : {Absent, Val(0), Val(3 * Cent)},
   spendThreshold : {Absent, Val(0), Val(3 * Cent)}]

\* the offers table: empty or holding one such record
LegacyTables == {NoOffers} \cup {[i \in {1} |-> o] : o \in LegacyOffers}

\* the stats table: no row, or the "app" row
LegacyStats ==
  {{}} \cup {{[id |-> "app", lifetimeCashbackEarned |-> v]} : v \in {0, 5 * Cent}}

UpgradeInit ==
  /\ DbInit
  /\ MathIdle
  /\ upgradeInput \in [offers : LegacyTables, stats : LegacyStats]
  /\ upgradeResult = [op |-> "none"]

applyUpgradeV2 ==
  /\ upgradeResult' = [op |-> "upgradeV2",
                       once |-> upgradeV2(upgradeInput),
                       twice |-> upgradeV2(upgradeV2(upgradeInput))]
  /\ UNCHANGED upgradeInput
  /\ UNCHANGED <<dbVars, mathVars>>

applyUpgradeV3 ==
  /\ upgradeResult' = [op |-> "upgradeV3",
                       once |-> upgradeV3(upgradeInput),
                       twice |-> upgradeV3(upgradeV3(upgradeInput))]
  /\ UNCHANGED upgradeInput
  /\ UNCHANGED <<dbVars, mathVars>>

UpgradeNext ==
  \/ applyUpgradeV2
  \/ applyUpgradeV3

UpgradeSpec == UpgradeInit /\ [][UpgradeNext]_vars

(***************************************************************************)
(* Properties                                                              *)
(***************************************************************************)
RECURSIVE SumAmounts(_)
SumAmounts(logs) ==
  IF logs = {} THEN 0
  ELSE LET l == CHOOSE x \in logs : TRUE
       IN l.amount + SumAmounts(logs \ {l})

LogsOf(id) == {l \in spendLogs : l.offerId = id}

\* the step just taken was archiveOffer on an offer that exists
ArchiveStep ==
  /\ opCount' # opCount
  /\ lastOp'.op = "archiveOffer"
  /\ lastOp'.found

\* C1 as stated: archiveOffer twice in sequence on the same existing offer
\* adds the offer's recomputed cashbackEarned to lifetimeCashbackEarned
\* exactly once; the second call leaves it unchanged and creditedToLifetime
\* stays true.
C1_Original ==
  [][ArchiveStep =>
       LET id == lastOp'.id
       IN /\ offers'[id].creditedToLifetime
          /\ lastOp'.n = 2 => lifetimeCashbackEarned' = lifetimeCashbackEarned
          /\ (lastOp'.n = 1 /\ ~offers[id].creditedToLifetime) =>
               lifetimeCashbackEarned' =
                 lifetimeCashbackEarned
                   + recalcOfferProgress(offers[id]).cashbackEarned]_vars

\* C1 amended: archiveOffer twice in sequence on the same existing offer
\* adds the offer's recomputed cashbackEarned to lifetimeCashbackEarned
\* exactly once, the sum being stored rounded to two decimals; the second
\* call leaves it unchanged and creditedToLifetime stays true.
C1_ArchiveTwiceCreditsOnce ==
  [][ArchiveStep =>
       LET id == lastOp'.id
       IN /\ offers'[id].creditedToLifetime
          /\ lastOp'.n = 2 => lifetimeCashbackEarned' = lifetimeCashbackEarned
          /\ (lastOp'.n = 1 /\ ~offers[id].creditedToLifetime) =>
               lifetimeCashbackEarned' =
                 ToFixed2(lifetimeCashbackEarned
                   + recalcOfferProgress(offers[id]).cashbackEarned)]_vars

\* archiveOffer has just run a second time in a row on an offer that earned
\* something
C1_Witness ==
  /\ lastOp.op = "archiveOffer"
  /\ lastOp.n = 2
  /\ lastOp.id \in DOMAIN offers
  /\ offers[lastOp.id].cashbackEarned > 0
  /\ lifetimeCashbackEarned > 0

\* C2: under any interleaving of archiveOffer, normalization sweeps and
\* spend-log transactions, each offer's cashbackEarned is added to
\* lifetimeCashbackEarned at most once (additions of a zero amount are not
\* counted).
C2_CreditedAtMostOnce ==
  \A id \in OfferIds : creditCount[id] <= 1

\* C3: every stored offer that was never edited has totalSpendTracked equal
\* to its value at creation plus the amounts of the stored spend logs that
\* name it.
C3_TotalMatchesLogs ==
  \A id \in DOMAIN offers :
    id \notin edited =>
      offers[id].totalSpendTracked = initialSpend[id] + SumAmounts(LogsOf(id))

\* C4: immediately after deleteOfferPermanently(id) no offer has that id and
\* no spend log has that offerId, however many logs the offer had.
C4_DeleteCascades ==
  lastOp.op = "deleteOfferPermanently" =>
    /\ lastOp.id \notin DOMAIN offers
    /\ \A l \in spendLogs : l.offerId # lastOp.id

\* deleteOfferPermanently has just removed an offer that had two spend logs
C4_Witness ==
  /\ lastOp.op = "deleteOfferPermanently"
  /\ lastOp.found
  /\ lastOp.n >= 2

\* C5: once deleteOfferPermanently(id) has completed, no offer record with
\* that id exists in any later state.
C5_DeleteIrreversible ==
  \A id \in deleted : id \notin DOMAIN offers

\* C6: a stored offer has status archived if and only if archiveOffer has
\* been run on it (since it was last deleted).
C6_ArchivedIffArchiveRan ==
  \A id \in DOMAIN offers :
    offers[id].status = "archived" <=> id \in archivedRun

\* C7: every stored percentage offer with rate > 0 that was created and had
\* spend logged, never edited, has
\* cashbackEarned = min(min(totalSpendTracked, cashbackCap / rate) * rate,
\* cashbackCap).
C7_EarnedMatchesFormula ==
  \A id \in DOMAIN offers :
    LET o == offers[id]
    IN (o.rewardType = "percentage" /\ o.rate > 0 /\ id \notin edited
          /\ id \notin deleted) =>
         o.cashbackEarned =
           Min(MulRate(Min(o.totalSpendTracked, DivRate(o.cashbackCap, o.rate)),
                       o.rate),
               o.cashbackCap)

\* C8: computeStatus applies the precedence archived > expired > maxed >
\* active: archived when the stored status is archived; otherwise expired
\* when now > expireAt, even if the offer is maxed out; otherwise maxed when
\* isMaxedOut; otherwise active.
C8_StatusPrecedence ==
  mathResult.op = "computeStatus" =>
    /\ mathOffer.status = "archived" => mathResult.status = "archived"
    /\ (mathOffer.status # "archived" /\ mathNow > mathOffer.expireAt)
          => mathResult.status = "expired"
    /\ (mathOffer.status # "archived" /\ mathNow <= mathOffer.expireAt
          /\ isMaxedOut(mathOffer)) => mathResult.status = "maxed"
    /\ (mathOffer.status # "archived" /\ mathNow <= mathOffer.expireAt
          /\ ~isMaxedOut(mathOffer)) => mathResult.status = "active"

\* a non-archived offer past expiry and maxed out was given to computeStatus
C8_Witness ==
  /\ mathResult.op = "computeStatus"
  /\ mathOffer.status # "archived"
  /\ mathNow > mathOffer.expireAt
  /\ isMaxedOut(mathOffer)
  /\ mathResult.status = "expired"

\* C9: with the time fixed, normalizeOffer(normalizeOffer(o)) equals
\* normalizeOffer(o), and normalizeOffer(o) differs from o in at most the
\* status field.
C9_NormalizeIdempotent ==
  mathResult.op = "normalizeOffer" =>
    /\ mathResult.twice = mathResult.once
    /\ [mathResult.once EXCEPT !.status = mathOffer.status] = mathOffer

\* normalizeOffer changed the status of an offer it was given
C9_Witness ==
  /\ mathResult.op = "normalizeOffer"
  /\ mathResult.once.status # mathOffer.status
  /\ mathResult.twice = mathResult.once

\* C10: for a percentage offer with rate > 0 and totalSpendTracked >= 0,
\* computeOfferStats(o).earned <= o.cashbackCap.
C10_EarnedWithinCap ==
  (/\ mathResult.op = "computeOfferStats"
   /\ mathOffer.rewardType = "percentage"
   /\ mathOffer.rate > 0
   /\ mathOffer.totalSpendTracked >= 0)
    => mathResult.stats.earned <= mathOffer.cashbackCap

\* computeOfferStats ran on a percentage offer whose spend is past the cap
C10_Witness ==
  /\ mathResult.op = "computeOfferStats"
  /\ mathOffer.rewardType = "percentage"
  /\ mathOffer.rate > 0
  /\ mathOffer.cashbackCap > 0
  /\ MulRate(mathOffer.totalSpendTracked, mathOffer.rate) > mathOffer.cashbackCap
  /\ mathResult.stats.earned = mathOffer.cashbackCap

\* C11: for every threshold offer (spendThreshold absent, zero or negative
\* included, whatever cashbackEarned is stored) computeOfferStats(o).earned
\* is either 0 or the offer's reward amount (rewardAmount, or cashbackCap
\* when rewardAmount is absent), never any other value.
C11_ThresholdEarnedAllOrNothing ==
  (/\ mathResult.op = "computeOfferStats"
   /\ mathOffer.rewardType = "threshold")
    => mathResult.stats.earned
         \in {0, OrElse(mathOffer.rewardAmount, mathOffer.cashbackCap)}

\* the "spend 125, get 25" offer with the given tracked spend was handed to
\* the pure functions
ScenarioAt(spend) ==
  /\ mathOffer \in ScenarioOffers
  /\ mathOffer.totalSpendTracked = spend

\* C12: for a non-archived threshold offer with spendThreshold = 125 and
\* rewardAmount = 25, at totalSpendTracked = 124.99 computeOfferStats gives
\* earned = 0 and isMaxedOut is false; at totalSpendTracked = 125.00
\* computeOfferStats gives earned = 25 and isMaxedOut is true.
C12_ThresholdScenario ==
  /\ (mathResult.op = "computeOfferStats" /\ ScenarioAt(12499 * Cent))
        => mathResult.stats.earned = 0
  /\ (mathResult.op = "isMaxedOut" /\ ScenarioAt(12499 * Cent))
        => ~mathResult.maxed
  /\ (mathResult.op = "computeOfferStats" /\ ScenarioAt(12500 * Cent))
        => mathResult.stats.earned = 2500 * Cent
  /\ (mathResult.op = "isMaxedOut" /\ ScenarioAt(12500 * Cent))
        => mathResult.maxed

\* C13: archiveOffer on an id that has no offer record raises no error and
\* changes nothing: the offers, spendLogs and stats collections are the same
\* before and after, and no stats row is created or modified.
C13_ArchiveMissingChangesNothing ==
  [][(/\ opCount' # opCount
      /\ lastOp'.op = "archiveOffer"
      /\ ~lastOp'.found)
       => /\ offers' = offers
          /\ spendLogs' = spendLogs
          /\ stats' = stats]_vars

\* archiveOffer has just run on the id of a deleted offer while no stats row
\* existed, and there is still none
C13_Witness ==
  /\ lastOp.op = "archiveOffer"
  /\ ~lastOp.found
  /\ lastOp.id \in deleted
  /\ lastOp.id \notin DOMAIN offers
  /\ stats = {}

\* the step just taken was an archive, delete or spend-log transaction in
\* which a step failed
FailedTransactionStep ==
  /\ opCount' # opCount
  /\ \/ lastOp'.op \in {"archiveOffer rejected",
                        "deleteOfferPermanently rejected"}
     \/ lastOp'.op = "handleSubmit" /\ ~lastOp'.found

\* C14: if a step inside the archive, delete or spend-log transaction fails
\* (the spend-log transaction throwing because the parent offer no longer
\* exists after the log entry was added included), the stored offers,
\* spendLogs and stats are exactly as they were before the operation.
C14_FailedTransactionLeavesNoTrace ==
  [][FailedTransactionStep =>
       /\ offers' = offers
       /\ spendLogs' = spendLogs
       /\ stats' = stats]_vars

\* the quick-log transaction has just thrown on a deleted offer, after an
\* earlier purchase of that offer had been logged and deleted with it: the
\* log it added is not stored
C14_Witness ==
  /\ lastOp.op = "handleSubmit"
  /\ ~lastOp.found
  /\ lastOp.id \in deleted
  /\ nextLogId > 2
  /\ spendLogs = {}

\* the first k first-credit amounts added up the way archiveOffer adds an
\* amount to the lifetime total (each sum stored rounded to two decimals)
RECURSIVE CreditedTotal(_)
CreditedTotal(k) ==
  IF k = 0 THEN 0
  ELSE ToFixed2(CreditedTotal(k - 1) + firstCredits[k].earned)

\* C15: lifetimeCashbackEarned never decreases across any sequence of
\* archive, delete, spend-log, edit and normalization operations, and in
\* every reachable state it equals the sum, over all offers that were ever
\* credited (offers deleted afterwards included), of the cashbackEarned
\* each had when it was first archived (the sum taken as archiveOffer
\* accumulates it, rounded to two decimals).
C15_LifetimeIsSumOfFirstCredits ==
  [][/\ lifetimeCashbackEarned' >= lifetimeCashbackEarned
     /\ lifetimeCashbackEarned' = CreditedTotal(Len(firstCredits))']_vars

\* C16: recalcOfferProgress, computeOfferStats, isMaxedOut,
\* getRemainingSpendToCap, computeStatus and normalizeOffer are total: for
\* every offer (rate zero or negative, cashbackCap zero or negative,
\* spendThreshold absent, zero or negative, negative totalSpendTracked or
\* cashbackEarned included) none of them divides by zero, each returns a
\* defined value, and every numeric field of computeOfferStats is a finite
\* number.  The only value that is not finite is the +Infinity that
\* getRemainingSpendToCap returns as a constant for a percentage offer with
\* rate <= 0.
C16_OfferMathIsTotal ==
  /\ mathResult.op = "computeOfferStats" =>
       /\ Finite(mathResult.stats.earned)
       /\ Finite(mathResult.stats.remainCashback)
       /\ Finite(mathResult.stats.remainSpendToCap)
       /\ Finite(mathResult.stats.percent)
  /\ mathResult.op = "recalcOfferProgress" =>
       Finite(mathResult.offer.cashbackEarned)
  /\ mathResult.op = "getRemainingSpendToCap" =>
       \/ Finite(mathResult.remain)
       \/ /\ mathResult.remain = LARGE_NUMBER
          /\ mathOffer.rewardType = "percentage"
          /\ mathOffer.rate <= 0
  /\ mathResult.op = "isMaxedOut" => mathResult.maxed \in BOOLEAN
  /\ mathResult.op = "computeStatus" =>
       mathResult.status \in {"active", "expired", "maxed", "archived"}
  /\ mathResult.op = "normalizeOffer" =>
       mathResult.once.status \in {"active", "expired", "maxed", "archived"}

\* computeOfferStats ran on a percentage offer with rate 0, a positive cap
\* and negative tracked spend, where cashbackCap / rate would be a division
\* by zero
C16_Witness ==
  /\ mathResult.op = "computeOfferStats"
  /\ mathOffer.rewardType = "percentage"
  /\ mathOffer.rate = 0
  /\ mathOffer.cashbackCap > 0
  /\ mathOffer.totalSpendTracked < 0
  /\ mathResult.stats.remainSpendToCap = 0

\* what reading a field yields: an absent key reads as undefined
Read(field) == IF field = Absent THEN Null ELSE field

\* C17: the v1->v2 upgrade sets status to active on every offer whose status
\* is absent or falsy, sets creditedToLifetime to false on every offer where
\* it is absent or null, leaves every other field of every offer as it
\* reads, and creates the stats row with id "app" and
\* lifetimeCashbackEarned 0 only if no such row exists; after it every
\* offer has a status and a boolean creditedToLifetime and exactly one stats
\* row exists.
C17_UpgradeV2Backfills ==
  upgradeResult.op = "upgradeV2" =>
    LET before == upgradeInput
        after == upgradeResult.once
    IN /\ DOMAIN after.offers = DOMAIN before.offers
       /\ \A i \in DOMAIN before.offers :
            LET o == before.offers[i]
                u == after.offers[i]
            IN /\ IsFalsy(o.status) => u.status = Val("active")
               /\ IsNullish(o.creditedToLifetime)
                    => u.creditedToLifetime = Val(FALSE)
               /\ [u EXCEPT !.status = o.status,
                            !.creditedToLifetime = o.creditedToLifetime,
                            !.archivedAt = o.archivedAt] = o
               /\ Read(u.archivedAt) = Read(o.archivedAt)
               /\ ~IsFalsy(u.status)
               /\ u.creditedToLifetime \in {Val(TRUE), Val(FALSE)}
       /\ before.stats = {}
            => after.stats = {[id |-> "app", lifetimeCashbackEarned |-> 0]}
       /\ before.stats # {} => after.stats = before.stats
       /\ Cardinality(after.stats) = 1

\* the v1->v2 upgrade ran on a store with no stats row and an offer whose
\* status is the empty string, whose creditedToLifetime is null and which
\* has no archivedAt key
C17_Witness ==
  /\ upgradeResult.op = "upgradeV2"
  /\ upgradeInput.stats = {}
  /\ 1 \in DOMAIN upgradeInput.offers
  /\ upgradeInput.offers[1].status = Val("")
  /\ upgradeInput.offers[1].creditedToLifetime = Null
  /\ upgradeInput.offers[1].archivedAt = Absent
  /\ upgradeResult.once.offers[1].status = Val("active")
  /\ upgradeResult.once.offers[1].creditedToLifetime = Val(FALSE)

\* C18: the v2->v3 upgrade sets rewardType to percentage when absent; for
\* percentage offers it sets rewardAmount to cashbackCap when rewardAmount is
\* absent and sets spendThreshold to cashbackCap / rate when spendThreshold
\* is absent and rate > 0, leaving spendThreshold unset when rate <= 0; for
\* threshold offers it sets rewardAmount to cashbackCap when absent and
\* spendThreshold to 0 when absent (an absent cashbackCap counting as 0).
C18_UpgradeV3Backfills ==
  upgradeResult.op = "upgradeV3" =>
    \A i \in DOMAIN upgradeInput.offers :
      LET o == upgradeInput.offers[i]
          u == upgradeResult.once.offers[i]
          cap == Coalesce(o.cashbackCap, 0)
      IN /\ IsNullish(o.rewardType) => u.rewardType = Val("percentage")
         /\ (u.rewardType = Val("percentage") /\ IsNullish(o.rewardAmount))
               => u.rewardAmount = Val(cap)
         /\ (u.rewardType = Val("percentage") /\ IsNullish(o.spendThreshold)
               /\ o.rate > 0)
               => u.spendThreshold = Val(DivRate(cap, o.rate))
         /\ (u.rewardType = Val("percentage") /\ IsNullish(o.spendThreshold)
               /\ o.rate <= 0)
               => u.spendThreshold = o.spendThreshold
         /\ (u.rewardType = Val("threshold") /\ IsNullish(o.rewardAmount))
               => u.rewardAmount = Val(cap)
         /\ (u.rewardType = Val("threshold") /\ IsNullish(o.spendThreshold))
               => u.spendThreshold = Val(0)

\* the v2->v3 upgrade ran on an offer without rewardType, rewardAmount and
\* spendThreshold whose rate is positive, and filled in all three
C18_Witness ==
  /\ upgradeResult.op = "upgradeV3"
  /\ 1 \in DOMAIN upgradeInput.offers
  /\ upgradeInput.offers[1].rewardType = Absent
  /\ upgradeInput.offers[1].rewardAmount = Absent
  /\ upgradeInput.offers[1].spendThreshold = Absent
  /\ upgradeInput.offers[1].rate > 0
  /\ upgradeInput.offers[1].cashbackCap = Val(2 * Cent)
  /\ upgradeResult.once.offers[1].rewardType = Val("percentage")
  /\ upgradeResult.once.offers[1].rewardAmount = Val(2 * Cent)
  /\ upgradeResult.once.offers[1].spendThreshold = Val(4 * Cent)

\* an upgrade has run on the stored tables
UpgradeRan == upgradeResult.op \in {"upgradeV2", "upgradeV3"}

\* the upgrade left an existing stats row as it was, and running it a
\* second time changed nothing
UpgradeSettles ==
  /\ upgradeInput.stats # {} => upgradeResult.once.stats = upgradeInput.stats
  /\ upgradeResult.twice = upgradeResult.once

\* C19 as stated: each upgrade transform is idempotent and never overwrites
\* a populated field: an offer that has a non-null value in a backfilled
\* field (status, creditedToLifetime, rewardType, rewardAmount,
\* spendThreshold) keeps that value, an existing stats row keeps its
\* lifetimeCashbackEarned, and applying the transform twice gives the same
\* records as applying it once.
C19_Original ==
  UpgradeRan =>
    /\ UpgradeSettles
    /\ \A i \in DOMAIN upgradeInput.offers :
         LET o == upgradeInput.offers[i]
             u == upgradeResult.once.offers[i]
         IN /\ ~IsNullish(o.status) => u.status = o.status
            /\ ~IsNullish(o.creditedToLifetime)
                 => u.creditedToLifetime = o.creditedToLifetime
            /\ ~IsNullish(o.rewardType) => u.rewardType = o.rewardType
            /\ ~IsNullish(o.rewardAmount) => u.rewardAmount = o.rewardAmount
            /\ ~IsNullish(o.spendThreshold)
                 => u.spendThreshold = o.spendThreshold

\* C19 amended: each upgrade transform is idempotent and never overwrites a
\* populated field: an offer keeps a non-empty status or rewardType and a
\* non-null creditedToLifetime, rewardAmount or spendThreshold (an empty
\* string in status or rewardType is replaced by the default), an existing
\* stats row keeps its lifetimeCashbackEarned, and applying the transform
\* twice gives the same records as applying it once.
C19_UpgradesKeepPopulatedFields ==
  UpgradeRan =>
    /\ UpgradeSettles
    /\ \A i \in DOMAIN upgradeInput.offers :
         LET o == upgradeInput.offers[i]
             u == upgradeResult.once.offers[i]
         IN /\ ~IsFalsy(o.status) => u.status = o.status
            /\ ~IsNullish(o.creditedToLifetime)
                 => u.creditedToLifetime = o.creditedToLifetime
            /\ ~IsFalsy(o.rewardType) => u.rewardType = o.rewardType
            /\ ~IsNullish(o.rewardAmount) => u.rewardAmount = o.rewardAmount
            /\ ~IsNullish(o.spendThreshold)
                 => u.spendThreshold = o.spendThreshold

\* the v1->v2 upgrade ran on a store whose stats row holds 5.00 and whose
\* offer is archived and credited, and changed neither
C19_Witness ==
  /\ upgradeResult.op = "upgradeV2"
  /\ upgradeInput.stats = {[id |-> "app", lifetimeCashbackEarned |-> 5 * Cent]}
  /\ 1 \in DOMAIN upgradeInput.offers
  /\ upgradeInput.offers[1].status = Val("archived")
  /\ upgradeInput.offers[1].creditedToLifetime = Val(TRUE)
  /\ upgradeResult.once.stats = upgradeInput.stats
  /\ upgradeResult.once.offers[1].status = Val("archived")
  /\ upgradeResult.once.offers[1].creditedToLifetime = Val(TRUE)
  /\ upgradeResult.twice = upgradeResult.once

\* C20 as stated: isMaxedOut returns false for every offer whose stored
\* status is archived; for a non-archived threshold offer it returns true
\* exactly when totalSpendTracked >= spendThreshold - 0.01 (an absent
\* spendThreshold counting as 0); for a non-archived percentage offer it
\* returns true exactly when cashbackEarned >= cashbackCap - 0.01.
C20_Original ==
  mathResult.op = "isMaxedOut" =>
    /\ mathOffer.status = "archived" => ~mathResult.maxed
    /\ (mathOffer.status # "archived" /\ mathOffer.rewardType = "threshold")
         => (mathResult.maxed <=>
               mathOffer.totalSpendTracked
                 >= OrElse(mathOffer.spendThreshold, 0) - EPSILON)
    /\ (mathOffer.status # "archived" /\ mathOffer.rewardType = "percentage")
         => (mathResult.maxed <=>
               mathOffer.cashbackEarned >= mathOffer.cashbackCap - EPSILON)

\* C20 amended: isMaxedOut returns false for every offer whose stored status
\* is archived, for every threshold offer whose spendThreshold is absent,
\* zero or negative and for every percentage offer whose cashbackCap or rate
\* is zero or negative; for a non-archived threshold offer with
\* spendThreshold > 0 it returns true exactly when totalSpendTracked >=
\* spendThreshold - 0.01; for a non-archived percentage offer with
\* cashbackCap > 0 and rate > 0 it returns true exactly when
\* cashbackEarned >= cashbackCap - 0.01.
C20_MaxedOutWithinEpsilon ==
  mathResult.op = "isMaxedOut" =>
    LET threshold == OrElse(mathOffer.spendThreshold, 0)
        degenerate ==
          IF mathOffer.rewardType = "threshold" THEN threshold <= 0
          ELSE mathOffer.cashbackCap <= 0 \/ mathOffer.rate <= 0
    IN /\ (mathOffer.status = "archived" \/ degenerate) => ~mathResult.maxed
       /\ (mathOffer.status # "archived" /\ ~degenerate
             /\ mathOffer.rewardType = "threshold")
            => (mathResult.maxed <=>
                  mathOffer.totalSpendTracked >= threshold - EPSILON)
       /\ (mathOffer.status # "archived" /\ ~degenerate
             /\ mathOffer.rewardType = "percentage")
            => (mathResult.maxed <=>
                  mathOffer.cashbackEarned >= mathOffer.cashbackCap - EPSILON)

\* isMaxedOut ran on a non-archived threshold offer whose tracked spend is
\* exactly 0.01 below its positive threshold, and returned true
C20_Witness ==
  /\ mathResult.op = "isMaxedOut"
  /\ mathOffer.status # "archived"
  /\ mathOffer.rewardType = "threshold"
  /\ mathOffer.spendThreshold # None
  /\ OrElse(mathOffer.spendThreshold, 0) > 0
  /\ mathOffer.totalSpendTracked = OrElse(mathOffer.spendThreshold, 0) - EPSILON
  /\ mathResult.maxed

\* C21: computeOfferStats on a percentage offer with rate <= 0 returns
\* earned = 0, remainCashback = 0, remainSpendToCap = 0 and percent = 0,
\* whatever cashbackEarned and totalSpendTracked are stored on the offer.
C21_RatelessStatsAllZero ==
  (/\ mathResult.op = "computeOfferStats"
   /\ mathOffer.rewardType = "percentage"
   /\ mathOffer.rate <= 0)
    => mathResult.stats = [earned |-> 0,
                           remainCashback |-> 0,
                           remainSpendToCap |-> 0,
                           percent |-> 0]

\* C22: for every offer, degenerate ones included (negative
\* totalSpendTracked, zero or negative cashbackCap or spendThreshold),
\* computeOfferStats(o).percent lies in the closed interval [0, 1].
C22_PercentWithinUnitInterval ==
  mathResult.op = "computeOfferStats"
    => /\ mathResult.stats.percent >= 0
       /\ mathResult.stats.percent <= PercentDen

\* C23: getRemainingSpendToCap returns +infinity for a percentage offer with
\* rate <= 0; for every other offer it returns the dollar gap to the cap
\* (percentage: (cashbackCap - cashbackEarned) / rate) or to the threshold
\* (threshold: spendThreshold - totalSpendTracked) or 0, never a negative
\* number, and for every non-archived offer it returns 0 whenever
\* isMaxedOut(o) is true (the gap is within the 0.01 epsilon of isMaxedOut).
C23_RemainingSpendToCap ==
  mathResult.op = "getRemainingSpendToCap" =>
    LET rateless == mathOffer.rewardType = "percentage" /\ mathOffer.rate <= 0
        gap == IF mathOffer.rewardType = "threshold"
               THEN OrElse(mathOffer.spendThreshold, 0)
                      - mathOffer.totalSpendTracked
               ELSE DivRate(mathOffer.cashbackCap - mathOffer.cashbackEarned,
                            mathOffer.rate)
    IN /\ rateless => mathResult.remain = Infinity
       /\ ~rateless => /\ mathResult.remain \in {0, gap}
                       /\ mathResult.remain >= 0
       /\ (mathOffer.status # "archived" /\ isMaxedOut(mathOffer))
            => mathResult.remain = 0

C25_ExpiryIsStrict ==
  (/\ mathResult.op = "computeStatus"
   /\ mathOffer.status # "archived")
    => /\ mathResult.status = "expired" => mathNow > mathOffer.expireAt
       /\ mathNow <= mathOffer.expireAt
            => mathResult.status \in {"maxed", "active"}

\* computeStatus ran at the very instant of expireAt on an offer stored as
\* expired and did not return expired
C25_Witness ==
  /\ mathResult.op = "computeStatus"
  /\ mathOffer.status = "expired"
  /\ mathNow = mathOffer.expireAt
  /\ mathResult.status = "active"

\* C29: maxed implies paid: for every non-archived threshold offer with
\* spendThreshold > 0, whenever isMaxedOut(o) is true,
\* computeOfferStats(o).earned and recalcOfferProgress(o).cashbackEarned both
\* equal the offer's reward amount; an offer is never reported maxed while
\* its earned reward is 0.
C29_MaxedImpliesPaid ==
  LET reward == OrElse(mathOffer.rewardAmount, mathOffer.cashbackCap)
      maxedThreshold ==
        /\ mathOffer.status # "archived"
        /\ mathOffer.rewardType = "threshold"
        /\ OrElse(mathOffer.spendThreshold, 0) > 0
        /\ isMaxedOut(mathOffer)
  IN /\ (mathResult.op = "computeOfferStats" /\ maxedThreshold)
          => mathResult.stats.earned = reward
     /\ (mathResult.op = "recalcOfferProgress" /\ maxedThreshold)
          => mathResult.offer.cashbackEarned = reward

\* C26: after archiveOffer on an existing offer, the stored offer has status
\* archived, creditedToLifetime true and archivedAt set; if the offer
\* already had an archivedAt before the call, that value is kept unchanged,
\* while updatedAt is set to the time of the call.
C26_ArchiveKeepsFirstTimestamp ==
  [][ArchiveStep =>
       LET id == lastOp'.id
       IN /\ offers'[id].status = "archived"
          /\ offers'[id].creditedToLifetime
          /\ offers'[id].archivedAt # None
          /\ offers[id].archivedAt # None
               => offers'[id].archivedAt = offers[id].archivedAt
          /\ offers'[id].updatedAt = now']_vars

\* an offer archived at time 1 has just been archived again at time 2: its
\* archivedAt is still 1 and its updatedAt is 2
C26_Witness ==
  /\ lastOp.op = "archiveOffer"
  /\ lastOp.found
  /\ lastOp.id \in DOMAIN offers
  /\ now = 2
  /\ offers[lastOp.id].status = "archived"
  /\ offers[lastOp.id].creditedToLifetime
  /\ offers[lastOp.id].archivedAt = Some(1)
  /\ offers[lastOp.id].updatedAt = 2

\* the step just taken was a run of the normalization effect of the mounted
\* page
SweepStep ==
  /\ effectDue
  /\ ~effectDue'
  /\ page' = page

\* the offers a sweep over the given table would write at time t
SweepWrites(table, t) ==
  {i \in DOMAIN table : normalizeOffer(table[i], t).status # table[i].status}

\* C27: a normalization sweep writes exactly those offers whose normalized
\* status differs from the status of the record it read, and what it writes
\* is that record with only the status field changed; when no other writer
\* has changed the table since the sweep read it, after the sweep every
\* stored non-archived offer's status equals computeStatus of that offer, and
\* a second sweep at the same time would write nothing.
C27_SweepReachesFixedPoint ==
  [][SweepStep =>
       LET written == SweepWrites(snapshot, now)
       IN /\ DOMAIN offers' = DOMAIN offers \cup written
          /\ \A i \in written :
               offers'[i] = [snapshot[i] EXCEPT
                               !.status = computeStatus(snapshot[i], now)]
          /\ \A i \in DOMAIN offers \ written : offers'[i] = offers[i]
          /\ snapshot = offers
               => /\ \A i \in DOMAIN offers' :
                       offers'[i].status # "archived"
                         => offers'[i].status = computeStatus(offers'[i], now)
                  /\ SweepWrites(offers', now) = {}]_vars

\* a sweep over an up-to-date snapshot has just rewritten an offer read as
\* active into an expired one, and every stored status is now the computed one
C27_Witness ==
  /\ lastOp.op = "normalization"
  /\ lastOp.n > 0
  /\ ~effectDue
  /\ DOMAIN snapshot = DOMAIN offers
  /\ \E i \in DOMAIN offers :
       /\ snapshot[i].status = "active"
       /\ offers[i] = [snapshot[i] EXCEPT !.status = "expired"]
  /\ \A i \in DOMAIN offers : offers[i].status = computeStatus(offers[i], now)

\* C28: in every reachable state, under any interleaving of spend-log
\* transactions and deleteOfferPermanently transactions on the same offer,
\* every stored spend-log entry's offerId is the id of an offer record that
\* exists: a submission that runs after the offer was deleted persists
\* nothing, and one that runs before is removed by the delete.
C28_LogsReferToStoredOffers ==
  \A l \in spendLogs : l.offerId \in DOMAIN offers

\* the quick-log panel, still listing an offer that has been deleted, has
\* just submitted spend for it; the transaction found no offer and no log
\* of that offer is stored
C28_Witness ==
  /\ lastOp.op = "handleSubmit"
  /\ ~lastOp.found
  /\ lastOp.id \in deleted
  /\ lastOp.id \notin DOMAIN offers
  /\ nextLogId > 1
  /\ LogsOf(lastOp.id) = {}

\* spend logged through the quick-log panel has just brought the stored
\* percentage offer i, not archived and not past its expiry, to a tracked
\* spend of at least cashbackCap / rate
SpendReachedCap(i) ==
  /\ lastOp.op = "handleSubmit"
  /\ lastOp.found
  /\ lastOp.id = i
  /\ i \in DOMAIN offers
  /\ offers[i].rewardType = "percentage"
  /\ offers[i].status \notin {"archived", "expired"}
  /\ now <= offers[i].expireAt
  /\ offers[i].rate > 0
  /\ offers[i].totalSpendTracked
       >= DivRate(offers[i].cashbackCap, offers[i].rate)

\* offer i is stored as maxed and the dashboard no longer lists it as active
StoredAsMaxed(i) ==
  /\ i \in DOMAIN offers
  /\ offers[i].status = "maxed"
  /\ i \notin activeOffers

\* offer i has expired, or has been deleted, archived or edited back below
\* its spend cap
NoLongerDue(i) ==
  \/ i \notin DOMAIN offers
  \/ now > offers[i].expireAt
  \/ offers[i].status \in {"archived", "expired"}
  \/ offers[i].totalSpendTracked
       < DivRate(offers[i].cashbackCap, offers[i].rate)

\* C30: if spend logged through the quick-log panel brings a non-archived,
\* non-expired percentage offer's totalSpendTracked to at least
\* cashbackCap / rate, then, with normalization sweeps running fairly and
\* before the offer expires, the offer's stored status eventually becomes
\* maxed and it stops being listed as active.
C30_SpendToCapLeadsToMaxed ==
  \A i \in OfferIds :
    SpendReachedCap(i) ~> (StoredAsMaxed(i) \/ NoLongerDue(i))

====
